---- MODULE Spec2Model ----
(***************************************************************************)
(* ZipTransformer (src/src/zip/zip-transformer.ts): a Transformer that     *)
(* turns a sequence of entries (name, optional content stream) into one    *)
(* ZIP byte stream.  transform() emits a local file header, relays the     *)
(* content chunks and emits a data descriptor; flush() emits the central   *)
(* directory, the Zip64 end records and the classic end record.            *)
(*                                                                         *)
(* Byte counts are JavaScript BigInts in the source.  They are kept here   *)
(* as two-limb numbers <<hi, lo>> of value hi * 2^16 + lo, so that values  *)
(* around 2^32 stay exact.                                                 *)
(***************************************************************************)
EXTENDS Integers, Sequences, FiniteSets, TLC

VARIABLES forceZip64, entry, entries, offset, centralOffset, centralSize,
          output, calls, reading, flushed

vars == <<forceZip64, entry, entries, offset, centralOffset, centralSize,
          output, calls, reading, flushed>>

(***************************************************************************)
(* BigInt arithmetic on <<hi, lo>>, 0 <= lo < 2^16.                        *)
(***************************************************************************)
Limb == 2^16

Big(n) == <<n \div Limb, n % Limb>>

BigAdd(a, b) == <<a[1] + b[1] + ((a[2] + b[2]) \div Limb), (a[2] + b[2]) % Limb>>

BigSub(a, b) ==
    IF a[2] >= b[2] THEN <<a[1] - b[1], a[2] - b[2]>>
    ELSE <<a[1] - b[1] - 1, a[2] + Limb - b[2]>>

BigGT(a, b) == a[1] > b[1] \/ (a[1] = b[1] /\ a[2] > b[2])

BigLE(a, b) == ~BigGT(a, b)

\* the function f on 1..n as a sequence
AsSeq(f) == <<>> \o f

\* the sum of the lengths of the items s[lo..hi], halving the range
\* (addition is associative)
RECURSIVE TotalLength(_, _, _)
TotalLength(s, lo, hi) ==
    IF lo > hi THEN Big(0)
    ELSE IF lo = hi THEN s[lo].len
    ELSE LET mid == (lo + hi) \div 2
         IN  BigAdd(TotalLength(s, lo, mid), TotalLength(s, mid + 1, hi))

(***************************************************************************)
(* constants.ts (not among the sources; values as the specification and    *)
(* the ZIP format give them).                                              *)
(***************************************************************************)
ZIP64_MAGIC == <<65535, 65535>>        \* 0xFFFFFFFF
ZIP64_MAGIC_SHORT == 65535
ZIP64_EXTRA_ID == 1
SIG_LFH == "PK\\3\\4"
SIG_DD == "PK\\7\\8"
SIG_CFH == "PK\\1\\2"
SIG_ZIP64_EOCD == "PK\\6\\6"
SIG_ZIP64_EOCD_LOC == "PK\\6\\7"
SIG_EOCD == "PK\\5\\6"

(***************************************************************************)
(* Bounds of the model.                                                    *)
(***************************************************************************)
MaxEntries == 2      \* transform calls per archive
MaxChunks == 3       \* chunks the content sources deliver in all
MaxNum == 1          \* largest number used in an entry name

(***************************************************************************)
(* Entry names.  [ws, stem, num] is the string made of ws blanks, the      *)
(* stem and the decimal digits of num: [0, "", 1] is "1", [1, "f", 1] is   *)
(* " f1".                                                                  *)
(***************************************************************************)
Name(w, s, n) == [ws |-> w, stem |-> s, num |-> n]

RawNames ==
    {Name(0, "f", 1), Name(1, "f", 1)} \cup {Name(0, "", n) : n \in 1..MaxNum}

\* String.prototype.trim
Trim(raw) == [raw EXCEPT !.ws = 0]

Digits(n) ==
    IF n < 10 THEN 1 ELSE IF n < 100 THEN 2 ELSE IF n < 1000 THEN 3
    ELSE IF n < 10000 THEN 4 ELSE IF n < 100000 THEN 5 ELSE 6

\* textEncoder.encode(name).length (all characters are ASCII)
NameLength(name) == name.ws + (IF name.stem = "" THEN 0 ELSE 1) + Digits(name.num)

\* a property key that is a canonical array index ("0", "1", "42")
IsArrayIndex(name) == name.ws = 0 /\ name.stem = ""

(***************************************************************************)
(* Content.  A chunk is a sequence of blocks; block "x" is one byte, "H"   *)
(* is a block of 2^31 - 1 bytes and "G" a block of 2^31 bytes.             *)
(***************************************************************************)
Blocks == {"x", "G", "H"}

BlockLength(b) ==
    IF b = "x" THEN Big(1) ELSE IF b = "G" THEN <<32768, 0>> ELSE <<32767, 65535>>

Chunks == {<<"x">>, <<"x", "x">>, <<"G">>, <<"H">>}

\* value.length
RECURSIVE ChunkLength(_)
ChunkLength(c) ==
    IF c = <<>> THEN Big(0) ELSE BigAdd(BlockLength(Head(c)), ChunkLength(Tail(c)))

(***************************************************************************)
(* crc32.js (not among the sources): a rolling checksum with append and    *)
(* get.  The stand-in folds the blocks in order through a step function    *)
(* and finalises on get.                                                   *)
(***************************************************************************)
CrcMod == 251

CrcCode(b) == IF b = "x" THEN 1 ELSE IF b = "G" THEN 2 ELSE 5

CrcNew == 0

RECURSIVE CrcAppend(_, _)
CrcAppend(crc, c) ==
    IF c = <<>> THEN crc
    ELSE CrcAppend((crc * 3 + CrcCode(Head(c))) % CrcMod, Tail(c))

CrcGet(crc) == (CrcMod - 1) - crc

(***************************************************************************)
(* binary-stream.js (not among the sources): fixed-width little-endian     *)
(* writes.  writeInt16 and writeInt32 keep the low 16 and 32 bits of the   *)
(* value, writeBigInt64 writes 8 bytes.  An enqueued record is kept as the *)
(* fields whose value varies, by name, and its length in bytes `len`; the  *)
(* fields whose value is fixed (versions 0x002D, flags 0x0808, method 0,   *)
(* the DOS date and time, zeros) count in the length only.                 *)
(***************************************************************************)
writeInt16(n) == n % Limb

writeInt32(b) == <<b[1] % Limb, b[2]>>

writeBigInt64(b) == b

\* entry.extra.length: empty, or the Zip64 extra field (2 + 2 + 8 + 8 + 8)
ExtraLength(x) == IF x = <<>> THEN 0 ELSE 2 + 2 + 8 + 8 + 8

\* the bytes of the fixed-width fields of each record, in writing order
LfhFixedLength == 4 + 2 + 2 + 2 + 4 + 4 + 4 + 4 + 2 + 2
CfhFixedLength == 4 + 2 + 2 + 2 + 2 + 4 + 4 + 4 + 4 + 2 + 2 + 2 + 2 + 2 + 4 + 4
Zip64EocdLength == 4 + 8 + 2 + 2 + 4 + 4 + 8 + 8 + 8 + 8
Zip64LocatorLength == 4 + 4 + 8 + 4
EocdLength == 4 + 2 + 2 + 2 + 2 + 4 + 4 + 2

\* an enqueued content chunk
DataItem(c) == [kind |-> "DATA", chunk |-> c, len |-> ChunkLength(c)]

(***************************************************************************)
(* this.entries: a JavaScript object keyed by the trimmed name, kept here  *)
(* as the sequence of its values in the order Object.keys enumerates the   *)
(* keys: array-index keys first, in ascending numeric order, then the      *)
(* other keys in the order they were first added.  Assigning to a key that *)
(* is present replaces the value and keeps the key's place.                *)
(***************************************************************************)
HasKey(es, name) == \E i \in DOMAIN es : es[i].name = name

KeyIndex(es, name) == CHOOSE i \in DOMAIN es : es[i].name = name

\* the number of keys that Object.keys lists before a new key `name`
KeysBefore(es, name) ==
    IF IsArrayIndex(name)
    THEN Cardinality({i \in DOMAIN es : IsArrayIndex(es[i].name) /\ es[i].name.num < name.num})
    ELSE Len(es)

\* this.entries[name] = e
Put(es, name, e) ==
    IF HasKey(es, name) THEN [es EXCEPT ![KeyIndex(es, name)] = e]
    ELSE LET k == KeysBefore(es, name)
         IN  SubSeq(es, 1, k) \o <<e>> \o SubSeq(es, k + 1, Len(es))

\* the object this.entry refers to (null before the first transform)
ThisEntry(es, cur) == es[KeyIndex(es, cur[1])]

(***************************************************************************)
(* IEntry.isZip64, the method, and `entry.isZip64`, the expression the     *)
(* conditions of transform and flush test: the method itself, uncalled,    *)
(* which is a function object and so always truthy.                        *)
(***************************************************************************)
isZip64(e) == BigGT(e.compressedSize, ZIP64_MAGIC) \/ BigGT(e.size, ZIP64_MAGIC)

isZip64Ref(e) == TRUE

\* ZipTransformer.isZip64, the method, and `this.isZip64`, the expression
\* flush tests
archiveIsZip64(force, es, cSize, cOffset) ==
    \/ force
    \/ Len(es) > ZIP64_MAGIC_SHORT
    \/ BigGT(cSize, ZIP64_MAGIC)
    \/ BigGT(cOffset, ZIP64_MAGIC)

archiveIsZip64Ref(force, es, cSize, cOffset) == TRUE

(***************************************************************************)
(* The records.                                                            *)
(***************************************************************************)
\* the offset taken after the local file header is counted
newEntry_OffsetAfterHeader(name, off) ==
    [name |-> name, offset |-> BigAdd(off, Big(LfhFixedLength + NameLength(name))),
     crc |-> CrcNew, compressedSize |-> Big(0), size |-> Big(0), extra |-> <<>>]

newEntry(name, off) ==
    [name |-> name, offset |-> off, crc |-> CrcNew,
     compressedSize |-> Big(0), size |-> Big(0), extra |-> <<>>]

localFileHeader(e) ==
    [kind |-> SIG_LFH,
     nameLength |-> writeInt16(NameLength(e.name)),
     name |-> e.name,
     extra |-> e.extra,
     len |-> Big(LfhFixedLength + NameLength(e.name) + ExtraLength(e.extra))]

\* `width` is the width of the two size fields
dataDescriptor(e) ==
    IF isZip64Ref(e)
    THEN [kind |-> SIG_DD, crc |-> CrcGet(e.crc), width |-> 8,
          compressedSize |-> writeBigInt64(e.compressedSize),
          size |-> writeBigInt64(e.size),
          len |-> Big(4 + 4 + 8 + 8)]
    ELSE [kind |-> SIG_DD, crc |-> CrcGet(e.crc), width |-> 4,
          compressedSize |-> writeInt32(e.compressedSize),
          size |-> writeInt32(e.size),
          len |-> Big(4 + 4 + 4 + 4)]

\* the three values written offset first
createZip64ExtraField_OffsetFirst(e) ==
    << writeInt16(ZIP64_EXTRA_ID), writeInt16(24),
       writeBigInt64(e.offset), writeBigInt64(e.size), writeBigInt64(e.compressedSize) >>

createZip64ExtraField(e) ==
    << writeInt16(ZIP64_EXTRA_ID), writeInt16(24),
       writeBigInt64(e.size), writeBigInt64(e.compressedSize), writeBigInt64(e.offset) >>

\* the entry as the loop body of flush leaves it (entry.extra is assigned)
withExtra(e) ==
    IF isZip64Ref(e) \/ BigGT(e.offset, ZIP64_MAGIC)
    THEN [e EXCEPT !.extra = createZip64ExtraField(e)]
    ELSE e

centralDirectoryFileHeader(e0) ==
    LET esc == isZip64Ref(e0) \/ BigGT(e0.offset, ZIP64_MAGIC)
        e == withExtra(e0)
    IN  [kind |-> SIG_CFH,
         crc |-> CrcGet(e.crc),
         compressedSize |-> writeInt32(IF esc THEN ZIP64_MAGIC ELSE e.compressedSize),
         size |-> writeInt32(IF esc THEN ZIP64_MAGIC ELSE e.size),
         nameLength |-> writeInt16(NameLength(e.name)),
         extraLength |-> writeInt16(ExtraLength(e.extra)),
         fileOffset |-> writeInt32(IF esc THEN ZIP64_MAGIC ELSE e.offset),
         name |-> e.name,
         extra |-> e.extra,
         len |-> Big(CfhFixedLength + NameLength(e.name) + ExtraLength(e.extra))]

\* the 16-bit sentinel of the end record written as the entry counts
zip64EOCDirectoryRecord_SentinelCount(es, cSize, cOffset) ==
    [kind |-> SIG_ZIP64_EOCD,
     entriesOnDisk |-> writeBigInt64(Big(ZIP64_MAGIC_SHORT)),
     entries |-> writeBigInt64(Big(ZIP64_MAGIC_SHORT)),
     centralSize |-> writeBigInt64(cSize),
     centralOffset |-> writeBigInt64(cOffset),
     len |-> Big(Zip64EocdLength)]

zip64EOCDirectoryRecord(es, cSize, cOffset) ==
    [kind |-> SIG_ZIP64_EOCD,
     entriesOnDisk |-> writeBigInt64(Big(Len(es))),
     entries |-> writeBigInt64(Big(Len(es))),
     centralSize |-> writeBigInt64(cSize),
     centralOffset |-> writeBigInt64(cOffset),
     len |-> Big(Zip64EocdLength)]

\* the offset of the central directory written in place of its end
zip64EOCDirectoryLocator_CentralOffset(cSize, cOffset) ==
    [kind |-> SIG_ZIP64_EOCD_LOC,
     offset |-> writeBigInt64(cOffset),
     len |-> Big(Zip64LocatorLength)]

zip64EOCDirectoryLocator(cSize, cOffset) ==
    [kind |-> SIG_ZIP64_EOCD_LOC,
     offset |-> writeBigInt64(BigAdd(cOffset, cSize)),
     len |-> Big(Zip64LocatorLength)]

endOfCentralDirectoryRecord(force, es, cSize, cOffset) ==
    LET esc == archiveIsZip64Ref(force, es, cSize, cOffset)
        entriesSize == IF esc THEN ZIP64_MAGIC_SHORT ELSE Len(es)
    IN  [kind |-> SIG_EOCD,
         entriesOnDisk |-> writeInt16(entriesSize),
         entries |-> writeInt16(entriesSize),
         centralSize |-> writeInt32(IF esc THEN ZIP64_MAGIC ELSE cSize),
         centralOffset |-> writeInt32(IF esc THEN ZIP64_MAGIC ELSE cOffset),
         len |-> Big(EocdLength)]

(***************************************************************************)
(* State after the constructor.  `output` is what ctrl.enqueue received;   *)
(* `calls` records each transform call made (the trimmed name, the chunks  *)
(* its content source has delivered, whether it has returned); `reading`   *)
(* lists the calls suspended at `await reader.read()`; `flushed` says      *)
(* flush has run.                                                          *)
(***************************************************************************)
Init ==
    /\ forceZip64 = FALSE
    /\ entry = <<>>
    /\ entries = <<>>
    /\ offset = Big(0)
    /\ centralOffset = Big(0)
    /\ centralSize = Big(0)
    /\ output = <<>>
    /\ calls = <<>>
    /\ reading = <<>>
    /\ flushed = FALSE

\* the bytes of the name left out of the cursor
afterHeader_FixedOnly(off, lfh) == BigAdd(off, Big(LfhFixedLength))

\* lines 72 and 100: the cursor after a header, and after a descriptor
afterHeader(off, lfh) == BigAdd(off, lfh.len)

\* the content bytes left out of the cursor
afterDescriptor_NoSize(off, e, dd) == BigAdd(off, dd.len)

afterDescriptor(off, e, dd) == BigAdd(off, BigAdd(e.size, dd.len))

\* the chunk added to size only
relay_NoCompressedSize(e, c) ==
    [e EXCEPT !.crc = CrcAppend(e.crc, c),
              !.size = BigAdd(e.size, ChunkLength(c))]

\* the chunk counted but not fed to the checksum
relay_NoCrc(e, c) ==
    [e EXCEPT !.compressedSize = BigAdd(e.compressedSize, ChunkLength(c)),
              !.size = BigAdd(e.size, ChunkLength(c))]

\* lines 79-81: one chunk accumulated into the entry
relay(e, c) ==
    [e EXCEPT !.crc = CrcAppend(e.crc, c),
              !.compressedSize = BigAdd(e.compressedSize, ChunkLength(c)),
              !.size = BigAdd(e.size, ChunkLength(c))]

\* the end record left out of the cursor
afterFlush_NoEocd(cEnd, z64, eocd) == BigAdd(cEnd, TotalLength(z64, 1, Len(z64)))

\* lines 165, 174 and 199: the cursor after the records that follow the
\* central directory
afterFlush(cEnd, z64, eocd) ==
    BigAdd(BigAdd(cEnd, TotalLength(z64, 1, Len(z64))), eocd.len)

\* the end record enqueued ahead of the Zip64 records
flushOutput_EocdFirst(cfh, z64, eocd) == cfh \o <<eocd>> \o z64

\* lines 145, 164, 173, 198: the order flush enqueues its records in
flushOutput(cfh, z64, eocd) == cfh \o z64 \o <<eocd>>

\* transform, lines 39-72: the new entry and its local file header; with
\* no entry.stream the call runs on to the data descriptor (lines 86-100)
TransformStart(raw, hasStream) ==
    /\ ~flushed
    /\ LET name == Trim(raw)
           e == newEntry(name, offset)
           lfh == localFileHeader(e)
           dd == dataDescriptor(e)
       IN  /\ entries' = Put(entries, name, e)
           /\ entry' = <<name>>
           /\ IF hasStream
              THEN /\ output' = Append(output, lfh)
                   /\ offset' = afterHeader(offset, lfh)
                   /\ reading' = Append(reading, Len(calls) + 1)
              ELSE /\ output' = output \o <<lfh, dd>>
                   /\ offset' = afterDescriptor(afterHeader(offset, lfh), e, dd)
                   /\ reading' = reading
           /\ calls' = Append(calls, [name |-> name, chunks |-> <<>>, done |-> ~hasStream])
    /\ UNCHANGED <<forceZip64, centralOffset, centralSize, flushed>>

\* transform, lines 77-82: the read of the k-th suspended call delivers c
TransformChunk(k, c) ==
    /\ k \in DOMAIN reading
    /\ Cardinality({i \in DOMAIN output : output[i].kind = "DATA"}) < MaxChunks
    /\ LET i == KeyIndex(entries, entry[1])
       IN  entries' = [entries EXCEPT ![i] = relay(entries[i], c)]
    /\ output' = Append(output, DataItem(c))
    /\ calls' = [calls EXCEPT ![reading[k]].chunks = Append(@, c)]
    /\ UNCHANGED <<forceZip64, entry, offset, centralOffset, centralSize, reading, flushed>>

\* transform, lines 77-78 and 86-100: the read of the k-th suspended call
\* reports done
TransformDone(k) ==
    /\ k \in DOMAIN reading
    /\ LET e == ThisEntry(entries, entry)
           dd == dataDescriptor(e)
       IN  /\ output' = Append(output, dd)
           /\ offset' = afterDescriptor(offset, e, dd)
    /\ calls' = [calls EXCEPT ![reading[k]].done = TRUE]
    /\ reading' = SubSeq(reading, 1, k - 1) \o SubSeq(reading, k + 1, Len(reading))
    /\ UNCHANGED <<forceZip64, entry, entries, centralOffset, centralSize, flushed>>

\* the rejection caught and the loop left as if the source had ended
readRejected_Swallowed(out, e) == Append(out, dataDescriptor(e))

\* line 77: `await reader.read()` throws; there is no handler, so nothing
\* after it runs and the output stays as it is
readRejected(out, e) == out

\* transform, line 77: the read of the k-th suspended call rejects, and so
\* does the promise of the call
TransformFail(k) ==
    /\ k \in DOMAIN reading
    /\ output' = readRejected(output, ThisEntry(entries, entry))
    /\ reading' = SubSeq(reading, 1, k - 1) \o SubSeq(reading, k + 1, Len(reading))
    /\ UNCHANGED <<forceZip64, entry, entries, offset, centralOffset, centralSize,
                   calls, flushed>>

\* flush, lines 102-200 (the records and the cursor after the directory
\* are bound as the one element of a set, so that each is computed once)
Flush ==
    /\ ~flushed
    /\ reading = <<>>
    /\ \E cfh \in {AsSeq([i \in DOMAIN entries |-> centralDirectoryFileHeader(entries[i])])},
          es \in {AsSeq([i \in DOMAIN entries |-> withExtra(entries[i])])} :
         \E cEnd \in {BigAdd(offset, TotalLength(cfh, 1, Len(cfh)))} :
            LET cOffset == offset
                cSize == BigSub(cEnd, cOffset)
                z64 == IF archiveIsZip64Ref(forceZip64, es, cSize, cOffset)
                       THEN << zip64EOCDirectoryRecord(es, cSize, cOffset),
                               zip64EOCDirectoryLocator(cSize, cOffset) >>
                       ELSE <<>>
                eocd == endOfCentralDirectoryRecord(forceZip64, es, cSize, cOffset)
            IN  /\ centralOffset' = cOffset
                /\ centralSize' = cSize
                /\ entries' = es
                /\ output' = output \o flushOutput(cfh, z64, eocd)
                /\ offset' = afterFlush(cEnd, z64, eocd)
    /\ flushed' = TRUE
    /\ UNCHANGED <<forceZip64, entry, calls, reading>>

(***************************************************************************)
(* The transformer inside a TransformStream: the stream calls transform    *)
(* again only after the promise of the previous call has settled, and      *)
(* calls flush once, after the last transform has settled.                 *)
(***************************************************************************)
Next ==
    \/ \E raw \in RawNames, hasStream \in BOOLEAN :
           reading = <<>> /\ Len(calls) < MaxEntries /\ TransformStart(raw, hasStream)
    \/ \E c \in Chunks : TransformChunk(1, c)
    \/ TransformDone(1)
    \/ Flush

Spec == Init /\ [][Next]_vars

(***************************************************************************)
(* Content sources that can fail.  A transform call whose promise rejected *)
(* is one that has not returned and is not suspended.  A TransformStream   *)
(* whose transformer rejects becomes errored: it calls neither transform   *)
(* nor flush again.                                                        *)
(***************************************************************************)
Rejected(c) == ~calls[c].done /\ \A k \in DOMAIN reading : reading[k] # c

Errored == \E c \in DOMAIN calls : Rejected(c)

NextFail ==
    \/ \E raw \in RawNames, hasStream \in BOOLEAN :
           /\ ~Errored
           /\ reading = <<>>
           /\ Len(calls) < MaxEntries
           /\ TransformStart(raw, hasStream)
    \/ \E c \in Chunks : TransformChunk(1, c)
    \/ TransformDone(1)
    \/ TransformFail(1)
    \/ ~Errored /\ Flush

SpecFail == Init /\ [][NextFail]_vars

(***************************************************************************)
(* The transformer called directly: transform is an async method, and a    *)
(* caller that does not await the promise of one call can start the next   *)
(* while the earlier one is suspended at `await reader.read()`.  The       *)
(* suspended calls resume in any order.                                    *)
(***************************************************************************)
NextOverlap ==
    \/ \E raw \in RawNames, hasStream \in BOOLEAN :
           Len(calls) < MaxEntries /\ TransformStart(raw, hasStream)
    \/ \E k \in DOMAIN reading, c \in Chunks : TransformChunk(k, c)
    \/ \E k \in DOMAIN reading : TransformDone(k)
    \/ Flush

SpecOverlap == Init /\ [][NextOverlap]_vars

(***************************************************************************)
(* A large archive.  Run(lo, hi, off) is the effect of the transform calls *)
(* for the entries "f<lo>" .. "f<hi>", none with a content source, made    *)
(* one after the other from cursor off: each call is TransformStart with   *)
(* hasStream = FALSE, and since the names are new and are not array        *)
(* indices, each Put appends.  The range is halved so that the evaluation  *)
(* stays shallow.                                                          *)
(***************************************************************************)
RECURSIVE Run(_, _, _)
Run(lo, hi, off) ==
    IF lo > hi THEN [entries |-> <<>>, output |-> <<>>, calls |-> <<>>, offset |-> off]
    ELSE IF lo = hi
    THEN LET name == Trim(Name(0, "f", lo))
             e == newEntry(name, off)
             lfh == localFileHeader(e)
             dd == dataDescriptor(e)
         IN  [entries |-> <<e>>,
              output |-> <<lfh, dd>>,
              calls |-> <<[name |-> name, chunks |-> <<>>, done |-> TRUE]>>,
              offset |-> afterDescriptor(afterHeader(off, lfh), e, dd)]
    ELSE LET mid == (lo + hi) \div 2
             a == Run(lo, mid, off)
             b == Run(mid + 1, hi, a.offset)
         IN  [entries |-> a.entries \o b.entries,
              output |-> a.output \o b.output,
              calls |-> a.calls \o b.calls,
              offset |-> b.offset]

\* the state after n such calls on a new transformer
After(n) ==
    \E r \in {Run(1, n, Big(0))} :
        /\ forceZip64 = FALSE
        /\ entry = IF n = 0 THEN <<>> ELSE <<Name(0, "f", n)>>
        /\ entries = r.entries
        /\ offset = r.offset
        /\ centralOffset = Big(0)
        /\ centralSize = Big(0)
        /\ output = r.output
        /\ calls = r.calls
        /\ reading = <<>>
        /\ flushed = FALSE

\* the archive holds as many entries as the 16-bit count can express; the
\* next transform call is the first that can take it past that count
InitMany == After(ZIP64_MAGIC_SHORT)

\* names for the next call: names of entries the archive holds, new names,
\* and array-index names
RawNamesMany ==
    RawNames \cup {Name(0, s, ZIP64_MAGIC_SHORT + n) : s \in {"", "f"}, n \in 0..4}

ChunksMany == {<<"G">>}

NextMany ==
    \/ \E raw \in RawNamesMany, hasStream \in BOOLEAN :
           /\ reading = <<>>
           /\ Len(calls) <= ZIP64_MAGIC_SHORT
           /\ TransformStart(raw, hasStream)
    \/ \E c \in ChunksMany : TransformChunk(1, c)
    \/ TransformDone(1)
    \/ Flush

SpecMany == InitMany /\ [][NextMany]_vars

(***************************************************************************)
(* Reading the output stream.                                              *)
(***************************************************************************)
\* the number of bytes enqueued before output[i]
Pos(i) == TotalLength(output, 1, i - 1)

Indices(kind) == {i \in DOMAIN output : output[i].kind = kind}

\* what transform call c is due to have enqueued so far
CallShape(c) ==
    <<[kind |-> SIG_LFH, v |-> c.name]>>
    \o [i \in DOMAIN c.chunks |-> [kind |-> "DATA", v |-> c.chunks[i]]]
    \o (IF c.done THEN <<[kind |-> SIG_DD, v |-> <<>>]>> ELSE <<>>)

RECURSIVE BodyOf(_)
BodyOf(n) == IF n = 0 THEN <<>> ELSE BodyOf(n - 1) \o CallShape(calls[n])

Payload(it) ==
    IF it.kind = SIG_LFH THEN it.name ELSE IF it.kind = "DATA" THEN it.chunk ELSE <<>>

Kinds(seq) == [i \in DOMAIN seq |-> seq[i].kind]

\* the last transform call made with the (trimmed) name
LastCall(name) ==
    CHOOSE c \in DOMAIN calls :
        /\ calls[c].name = name
        /\ \A d \in DOMAIN calls : calls[d].name = name => d <= c

\* the place in the output of the local file header of call c
LfhIndex(c) ==
    CHOOSE i \in Indices(SIG_LFH) :
        Cardinality({j \in Indices(SIG_LFH) : j <= i}) = c

\* the bytes of a sequence of chunks, and their number
RECURSIVE Concat(_)
Concat(cs) == IF cs = <<>> THEN <<>> ELSE Head(cs) \o Concat(Tail(cs))

RECURSIVE ContentLength(_)
ContentLength(cs) ==
    IF cs = <<>> THEN Big(0) ELSE BigAdd(ChunkLength(Head(cs)), ContentLength(Tail(cs)))

(***************************************************************************)
(* C1.  The output is, for each transform call in order, one local file    *)
(* header, the call's chunks and one data descriptor; after flush these    *)
(* are followed by central directory records, then optionally a Zip64 end  *)
(* record and a Zip64 locator, then exactly one end record, which is last. *)
(***************************************************************************)
C1_OutputOrder ==
    LET body == BodyOf(Len(calls))
        b == Len(body)
        n == Len(output)
        tail == Kinds(SubSeq(output, b + 1, n))
    IN  /\ n >= b
        /\ \A i \in 1..b :
              /\ output[i].kind = body[i].kind
              /\ Payload(output[i]) = body[i].v
        /\ ~flushed => n = b
        /\ flushed =>
              \E m \in 0..Len(tail) :
                 /\ \A i \in 1..m : tail[i] = SIG_CFH
                 /\ SubSeq(tail, m + 1, Len(tail)) \in
                        {<<SIG_EOCD>>, <<SIG_ZIP64_EOCD, SIG_ZIP64_EOCD_LOC, SIG_EOCD>>}

C1_Witness ==
    /\ flushed
    /\ Len(calls) = 2
    /\ Len(calls[1].chunks) = 2
    /\ Indices(SIG_ZIP64_EOCD) # {}

\* the entry a central directory record was written for
EntryOf(it) == entries[KeyIndex(entries, it.name)]

\* the place in the output of the data descriptor of call c
DdIndex(c) ==
    CHOOSE i \in Indices(SIG_DD) :
        Cardinality({j \in Indices(SIG_DD) : j <= i}) = c

\* the sum of the lengths of the output items of the given kinds
BytesOf(kinds) ==
    LET items == SelectSeq(output, LAMBDA it : it.kind \in kinds)
    IN  TotalLength(items, 1, Len(items))

(***************************************************************************)
(* C2.  An entry whose size, compressedSize and offset do not exceed       *)
(* 0xFFFFFFFF has a central directory record with its true size,           *)
(* compressedSize and offset in the 32-bit fields, extra length 0 and no   *)
(* Zip64 extra field.                                                      *)
(***************************************************************************)
C2_SmallEntryLiteral ==
    flushed =>
        \A i \in Indices(SIG_CFH) :
            LET it == output[i]
                e == EntryOf(it)
            IN  (BigLE(e.size, ZIP64_MAGIC) /\ BigLE(e.compressedSize, ZIP64_MAGIC)
                     /\ BigLE(e.offset, ZIP64_MAGIC))
                => /\ it.size = e.size
                   /\ it.compressedSize = e.compressedSize
                   /\ it.fileOffset = e.offset
                   /\ it.extraLength = 0
                   /\ it.extra = <<>>

(***************************************************************************)
(* C3.  When the archive-wide escalation predicate is false at flush, no   *)
(* Zip64 end record and no Zip64 locator is emitted and the end record     *)
(* carries the literal entry count, central directory size and offset.     *)
(***************************************************************************)
C3_NoEscalationLiteral ==
    (flushed /\ ~archiveIsZip64(forceZip64, entries, centralSize, centralOffset)) =>
        /\ Indices(SIG_ZIP64_EOCD) = {}
        /\ Indices(SIG_ZIP64_EOCD_LOC) = {}
        /\ LET eocd == output[Len(output)]
           IN  /\ eocd.entriesOnDisk = Len(entries)
               /\ eocd.entries = Len(entries)
               /\ eocd.centralSize = centralSize
               /\ eocd.centralOffset = centralOffset

(***************************************************************************)
(* C4.  flush emits as many central directory records as transform calls   *)
(* were made, also when a trimmed name is supplied more than once.         *)
(***************************************************************************)
C4_OneRecordPerEntry ==
    flushed => Cardinality(Indices(SIG_CFH)) = Len(calls)

(***************************************************************************)
(* C5.  The central directory records are emitted in the order the         *)
(* entries were created: ascending local header offset and ascending       *)
(* transform call, also for names made of decimal digits.                  *)
(***************************************************************************)
C5_DirectoryInCreationOrder ==
    flushed =>
        \A i, j \in Indices(SIG_CFH) :
            i < j => /\ BigGT(EntryOf(output[j]).offset, EntryOf(output[i]).offset)
                     /\ LastCall(output[i].name) < LastCall(output[j].name)

(***************************************************************************)
(* C6.  An entry whose size exceeds 0xFFFFFFFF has a central directory     *)
(* record whose 32-bit compressed size, size and offset fields are all     *)
(* 0xFFFFFFFF and whose Zip64 extra field (payload length 24) holds the    *)
(* true size, compressed size and offset, in that order.                   *)
(***************************************************************************)
C6_LargeEntryZip64 ==
    flushed =>
        \A i \in Indices(SIG_CFH) :
            LET it == output[i]
                c == LastCall(it.name)
                trueSize == ContentLength(calls[c].chunks)
                trueOffset == Pos(LfhIndex(c))
            IN  BigGT(trueSize, ZIP64_MAGIC)
                => /\ it.compressedSize = ZIP64_MAGIC
                   /\ it.size = ZIP64_MAGIC
                   /\ it.fileOffset = ZIP64_MAGIC
                   /\ it.extraLength = 28
                   /\ it.extra = <<ZIP64_EXTRA_ID, 24, trueSize, trueSize, trueOffset>>

C6_Witness ==
    /\ flushed
    /\ \E i \in Indices(SIG_CFH) :
          /\ BigGT(EntryOf(output[i]).size, ZIP64_MAGIC)
          /\ BigGT(EntryOf(output[i]).offset, Big(0))

(***************************************************************************)
(* C8.  After flush, centralOffset is the number of bytes emitted for all  *)
(* local headers, content and data descriptors, and centralSize is the sum *)
(* of the lengths of the central directory records.                        *)
(***************************************************************************)
C8_CentralOffsetAndSize ==
    flushed =>
        /\ centralOffset = BytesOf({SIG_LFH, "DATA", SIG_DD})
        /\ \A i \in Indices(SIG_CFH) :
              (\A j \in Indices(SIG_CFH) : i <= j) => centralOffset = Pos(i)
        /\ centralSize = BytesOf({SIG_CFH})

C8_Witness ==
    /\ flushed
    /\ Len(entries) = 2
    /\ \E c \in DOMAIN calls : calls[c].chunks # <<>>

(***************************************************************************)
(* C9.  The offset stored in an entry that will have (or has) a central    *)
(* directory record is the number of bytes emitted before the entry's      *)
(* local file header, in every state from its creation on, and is the      *)
(* offset its central directory record carries.                            *)
(***************************************************************************)
C9_EntryOffset ==
    /\ \A i \in DOMAIN entries :
          entries[i].offset = Pos(LfhIndex(LastCall(entries[i].name)))
    /\ flushed =>
          \A i \in Indices(SIG_CFH) :
              output[i].extra[5] = Pos(LfhIndex(LastCall(output[i].name)))

C9_Witness ==
    /\ flushed
    /\ \E i \in DOMAIN entries :
          /\ BigGT(entries[i].offset, Big(0))
          /\ calls[LastCall(entries[i].name) - 1].chunks # <<>>

(***************************************************************************)
(* C10.  The checksum in the data descriptor of a transform call is the    *)
(* checksum of the concatenation of the chunks relayed for that call, so   *)
(* calls with the same bytes in different chunks have the same checksum;   *)
(* the central directory record of the entry carries the same value.       *)
(***************************************************************************)
ContentCrc(c) == CrcGet(CrcAppend(CrcNew, Concat(calls[c].chunks)))

C10_DescriptorCrc ==
    /\ \A c \in DOMAIN calls :
          calls[c].done => output[DdIndex(c)].crc = ContentCrc(c)
    /\ \A c \in DOMAIN calls : \A d \in (c + 1)..Len(calls) :
          (calls[c].done /\ calls[d].done
              /\ Concat(calls[c].chunks) = Concat(calls[d].chunks))
          => output[DdIndex(c)].crc = output[DdIndex(d)].crc
    /\ flushed =>
          \A i \in Indices(SIG_CFH) :
              output[i].crc = ContentCrc(LastCall(output[i].name))

C10_Witness ==
    /\ flushed
    /\ \E c, d \in DOMAIN calls :
          /\ calls[c].chunks # calls[d].chunks
          /\ Concat(calls[c].chunks) = Concat(calls[d].chunks)
          /\ calls[c].name # calls[d].name

(***************************************************************************)
(* C7.  If more than 65535 entries were added, both entry count fields of  *)
(* the end record are 0xFFFF and a Zip64 end record followed by a Zip64    *)
(* locator is emitted before the end record.                               *)
(***************************************************************************)
C7_ManyEntriesZip64 ==
    (flushed /\ Len(entries) > ZIP64_MAGIC_SHORT) =>
        LET n == Len(output)
        IN  /\ output[n].kind = SIG_EOCD
            /\ output[n].entriesOnDisk = ZIP64_MAGIC_SHORT
            /\ output[n].entries = ZIP64_MAGIC_SHORT
            /\ output[n - 2].kind = SIG_ZIP64_EOCD
            /\ output[n - 1].kind = SIG_ZIP64_EOCD_LOC

C7_Witness ==
    /\ flushed
    /\ Len(entries) > ZIP64_MAGIC_SHORT
    /\ Cardinality(Indices(SIG_CFH)) > ZIP64_MAGIC_SHORT

C12_DescriptorWidth ==
    \A c \in DOMAIN calls :
        calls[c].done =>
            LET dd == output[DdIndex(c)]
            IN  IF BigGT(ContentLength(calls[c].chunks), ZIP64_MAGIC)
                THEN dd.width = 8 /\ dd.len = Big(24)
                ELSE dd.width = 4 /\ dd.len = Big(16)

(***************************************************************************)
(* C13.  Also when a transform call starts while an earlier one is         *)
(* suspended, the local file header of every call but the last is followed *)
(* by all the chunks of that call and its data descriptor before the next  *)
(* local file header, and the entry of a call that has returned holds the  *)
(* size and the checksum of the chunks of that call and of no other.       *)
(***************************************************************************)
C13_OneOpenEntry ==
    /\ \A c \in DOMAIN calls :
          c < Len(calls) =>
              LET seg == SubSeq(output, LfhIndex(c), LfhIndex(c + 1) - 1)
                  shape == CallShape([calls[c] EXCEPT !.done = TRUE])
              IN  /\ Len(seg) = Len(shape)
                  /\ \A i \in DOMAIN seg :
                        /\ seg[i].kind = shape[i].kind
                        /\ Payload(seg[i]) = shape[i].v
    /\ \A c \in DOMAIN calls :
          (calls[c].done /\ c = LastCall(calls[c].name)) =>
              LET e == entries[KeyIndex(entries, calls[c].name)]
              IN  /\ e.size = ContentLength(calls[c].chunks)
                  /\ e.compressedSize = ContentLength(calls[c].chunks)
                  /\ e.crc = CrcAppend(CrcNew, Concat(calls[c].chunks))

(***************************************************************************)
(* C14.  The items that follow the local file header of a transform call   *)
(* are the chunks its content source delivered, unchanged, in the order of *)
(* delivery, one item per chunk; the size and the compressedSize of the    *)
(* entry, and those its data descriptor carries, are both the sum of the   *)
(* lengths of these chunks.                                                *)
(***************************************************************************)
C14_ContentRelayed ==
    \A c \in DOMAIN calls :
        LET h == LfhIndex(c)
            n == Len(calls[c].chunks)
            total == ContentLength(calls[c].chunks)
        IN  /\ Len(output) >= h + n
            /\ \A i \in 1..n :
                  /\ output[h + i].kind = "DATA"
                  /\ output[h + i].chunk = calls[c].chunks[i]
                  /\ output[h + i].len = ChunkLength(calls[c].chunks[i])
            /\ Len(output) > h + n => output[h + n + 1].kind # "DATA"
            /\ calls[c].done =>
                  /\ output[h + n + 1].kind = SIG_DD
                  /\ output[h + n + 1].size = total
                  /\ output[h + n + 1].compressedSize = total
            /\ c = LastCall(calls[c].name) =>
                  LET e == entries[KeyIndex(entries, calls[c].name)]
                  IN  e.size = total /\ e.compressedSize = total

C14_Witness ==
    \E c \in DOMAIN calls :
        /\ calls[c].done
        /\ Len(calls[c].chunks) = 3
        /\ calls[c].chunks[1] # calls[c].chunks[2]
        /\ calls[c].chunks[2] # calls[c].chunks[3]

(***************************************************************************)
(* C15.  Whenever no transform call is in progress (after construction,    *)
(* after each transform call has returned, after flush) the cursor is the  *)
(* number of bytes enqueued so far, and no step makes the cursor smaller.  *)
(***************************************************************************)
C15_CursorIsBytesEmitted ==
    /\ [](reading = <<>> => offset = TotalLength(output, 1, Len(output)))
    /\ [][BigLE(offset, offset')]_vars

C15_Witness ==
    /\ flushed
    /\ Len(calls) = 2
    /\ BigGT(offset, ZIP64_MAGIC)
    /\ offset = TotalLength(output, 1, Len(output))

(***************************************************************************)
(* C16.  A Zip64 locator directly follows the Zip64 end record, and the    *)
(* offset it carries is the number of bytes enqueued before the first byte *)
(* of that record.                                                         *)
(***************************************************************************)
C16_LocatorOffset ==
    \A i \in Indices(SIG_ZIP64_EOCD_LOC) :
        /\ i > 1
        /\ output[i - 1].kind = SIG_ZIP64_EOCD
        /\ output[i].offset = Pos(i - 1)

C16_Witness ==
    /\ Indices(SIG_ZIP64_EOCD_LOC) # {}
    /\ Indices(SIG_CFH) # {}
    /\ Indices("DATA") # {}
    /\ BigGT(centralSize, Big(0))

(***************************************************************************)
(* C17.  A transform call for an entry without a content source (a call    *)
(* that has returned in the step that made it) enqueues exactly two items, *)
(* the local file header and directly after it the data descriptor; the    *)
(* size and compressedSize of the entry are 0 and the cursor advances by   *)
(* the length of the header plus the length of the descriptor.             *)
(***************************************************************************)
C17_NoContentEntry ==
    [][ (Len(calls') = Len(calls) + 1 /\ calls'[Len(calls')].done) =>
            LET n == Len(output)
                name == calls'[Len(calls')].name
                e == entries'[KeyIndex(entries', name)]
            IN  /\ Len(output') = n + 2
                /\ SubSeq(output', 1, n) = output
                /\ output'[n + 1].kind = SIG_LFH
                /\ output'[n + 1].name = name
                /\ output'[n + 2].kind = SIG_DD
                /\ output'[n + 2].size = Big(0)
                /\ output'[n + 2].compressedSize = Big(0)
                /\ e.size = Big(0)
                /\ e.compressedSize = Big(0)
                /\ offset' = BigAdd(offset, BigAdd(output'[n + 1].len, output'[n + 2].len))
      ]_vars

C17_Witness ==
    /\ Len(calls) = 2
    /\ calls[1].chunks # <<>>
    /\ calls[2].done
    /\ calls[2].chunks = <<>>
    /\ Len(output) = Len(calls[1].chunks) + 4
    /\ output[Len(output) - 1].kind = SIG_LFH
    /\ output[Len(output)].kind = SIG_DD

(***************************************************************************)
(* C18.  Both entry count fields of a Zip64 end record are the number of   *)
(* central directory records in the output, whatever names the transform   *)
(* calls were given, repeated names included.                              *)
(***************************************************************************)
C18_Zip64EntryCount ==
    \A i \in Indices(SIG_ZIP64_EOCD) :
        /\ output[i].entriesOnDisk = Big(Cardinality(Indices(SIG_CFH)))
        /\ output[i].entries = Big(Cardinality(Indices(SIG_CFH)))

C18_Witness ==
    /\ Indices(SIG_ZIP64_EOCD) # {}
    /\ Len(calls) = 2
    /\ calls[1].name = calls[2].name
    /\ Cardinality(Indices(SIG_CFH)) = 1

====
